---- MODULE Spec2Model ----
(***************************************************************************)
(* Model of the three-dxf viewer pipeline:                                 *)
(*   - getCoefficienConst / findCrossPoint (segment intersection engine),  *)
(*   - asynccParallel (bounded worker pool over a generator),              *)
(*   - createObjects / createIntersectPoints / Viewer (two-phase driver).  *)
(*                                                                         *)
(* Numbers are exact rationals <<n, d>> (d > 0, lowest terms); the         *)
(* JavaScript doubles of the source are modelled by exact arithmetic, so   *)
(* rounding is outside the model.  null is <<0, 0>> and undefined (also    *)
(* standing for NaN / Infinity) is <<1, 0>>.                               *)
(***************************************************************************)
EXTENDS Integers, Sequences, FiniteSets, TLC

VARIABLES
    \* ---- findCrossPoint called on its own (specification SpecFind) ----
    fcPoint1,       \* argument point1
    fcPoint2,       \* argument point2
    fcLines,        \* argument finieshLines
    fcResult,       \* the returned list `intersects`
    fcState,        \* "ready" before the call, "returned" after it
    \* ---- the Viewer pipeline (specification Spec) ----
    data,           \* data.entities, the parsed document
    conc,           \* the concurrency argument of asynccParallel
    pc,             \* position of the Viewer coroutine
    cursor,         \* `index` of the running generator (next item to yield)
    wstate,         \* per worker: "idle" | "awaiting" | "resolved" | "pending"
    inflight,       \* per worker: the promise of the item it awaits
    vals,           \* per worker: its local list `vals`
    runState,       \* promise returned by asynccParallel
    executed,       \* history: the work items called so far, in call order
    completed,      \* history: <<phase, index>> of the items whose result a
                    \* worker has pushed to its vals
    objs,           \* createObjects: objs
    lineVecs,       \* createObjects: lineVecs (the materialized segment list)
    intersects,     \* createIntersectPoints: intersects
    \* ---- BulgeGeometry constructed on its own (specification SpecBulge) ----
    bgStartPoint,   \* argument startPoint
    bgEndPoint,     \* argument endPoint
    bgBulge,        \* argument bulge
    bgSegments,     \* argument segments
    bgResult,       \* the constructed object
    bgState,        \* "ready" before the call, "returned" after it
    \* ---- drawEntity called on its own (specification SpecDraw) ----
    deEntity,       \* argument entity
    deResult,       \* the returned { mesh, lineVecs } and the built vertex lists
    deState,        \* "ready" before the call, "returned" after it
    \* ---- the synchronous Viewer of src/dist (specification SpecInc) ----
    incData,        \* data.entities, the parsed document
    incI,           \* the entity the for loop of Viewer is at
    incLineVecs,    \* the shared list lineVecs of Viewer
    incIntersects,  \* the shared list intersects of Viewer
    incState        \* "running", "done", or "thrown" when an entity raised

fcVars == <<fcPoint1, fcPoint2, fcLines, fcResult, fcState>>
plVars == <<data, conc, pc, cursor, wstate, inflight, vals, runState,
            executed, completed, objs, lineVecs, intersects>>
bgVars == <<bgStartPoint, bgEndPoint, bgBulge, bgSegments, bgResult, bgState>>
deVars == <<deEntity, deResult, deState>>
incVars == <<incData, incI, incLineVecs, incIntersects, incState>>
vars == <<fcPoint1, fcPoint2, fcLines, fcResult, fcState,
          data, conc, pc, cursor, wstate, inflight, vals, runState,
          executed, completed, objs, lineVecs, intersects,
          bgStartPoint, bgEndPoint, bgBulge, bgSegments, bgResult, bgState,
          deEntity, deResult, deState,
          incData, incI, incLineVecs, incIntersects, incState>>

----------------------------------------------------------------------------
(* Bounds of the model *)

MaxCoord == 2       \* input coordinates are the integers 0..MaxCoord
MaxLines == 2       \* longest candidate list given to findCrossPoint alone
MaxEntities == 3    \* most entities in a document
MaxConc == 3        \* largest concurrency tried besides CONCURRENCY
MaxAngle == 12      \* largest included angle of a bulge, in units of 10 degrees
MaxSegments == 4    \* largest segment count given to BulgeGeometry
MaxVertices == 3    \* most vertices of a polyline given to drawEntity alone
MaxChildren == 2    \* most entities in the block of an INSERT or DIMENSION

----------------------------------------------------------------------------
(* Numbers *)

Abs(n) == IF n < 0 THEN -n ELSE n

RECURSIVE Gcd(_, _)
Gcd(a, b) == IF b = 0 THEN a ELSE Gcd(b, a % b)

null == <<0, 0>>
undefined == <<1, 0>>

IsNum(r) == r[2] # 0

\* JavaScript `v == null`: true of null and of undefined
EqNull(v) == v[2] = 0

Rat(n, d) ==
    IF d = 0 THEN undefined
    ELSE LET g == Gcd(Abs(n), Abs(d))
             s == IF d < 0 THEN -1 ELSE 1
         IN  <<(s * n) \div g, (s * d) \div g>>

Num(i) == <<i, 1>>

Add(a, b) == IF IsNum(a) /\ IsNum(b)
             THEN Rat(a[1] * b[2] + b[1] * a[2], a[2] * b[2]) ELSE undefined
Sub(a, b) == IF IsNum(a) /\ IsNum(b)
             THEN Rat(a[1] * b[2] - b[1] * a[2], a[2] * b[2]) ELSE undefined
Mul(a, b) == IF IsNum(a) /\ IsNum(b)
             THEN Rat(a[1] * b[1], a[2] * b[2]) ELSE undefined
Div(a, b) == IF IsNum(a) /\ IsNum(b)
             THEN Rat(a[1] * b[2], a[2] * b[1]) ELSE undefined

\* a <= b and a == b on numbers; false as soon as one side is undefined
Le(a, b) == IsNum(a) /\ IsNum(b) /\ a[1] * b[2] <= b[1] * a[2]
Lt(a, b) == IsNum(a) /\ IsNum(b) /\ a[1] * b[2] < b[1] * a[2]
Eq(a, b) == IsNum(a) /\ IsNum(b) /\ a = b

min(a, b) == IF Le(a, b) THEN a ELSE b
max(a, b) == IF Le(a, b) THEN b ELSE a

----------------------------------------------------------------------------
(* Coefficient solver *)

\* math.lusolve on a 2x2 system: the solution as a column, or an exception
\* when the matrix is singular.
solveSimultaneousEquation(formula, results) ==
    LET m11 == formula[1][1]
        m12 == formula[1][2]
        m21 == formula[2][1]
        m22 == formula[2][2]
        det == Sub(Mul(m11, m22), Mul(m12, m21))
    IN  IF det = Num(0)
        THEN [thrown |-> TRUE, data |-> <<<<undefined>>, <<undefined>>>>]
        ELSE [thrown |-> FALSE,
              data |-> << <<Div(Sub(Mul(results[1], m22), Mul(m12, results[2])), det)>>,
                          <<Div(Sub(Mul(m11, results[2]), Mul(results[1], m21)), det)>> >>]

\* variant: the test for two identical points is missing
getCoefficienConstNoPointTest(point1, point2) ==
    IF Eq(point1.x, point2.x)
    THEN [thrown |-> FALSE, a |-> point1.x, k |-> null]
    ELSE IF Eq(point1.y, point2.y)
    THEN [thrown |-> FALSE, a |-> null, k |-> point1.y]
    ELSE LET result == solveSimultaneousEquation(
                           << <<point1.x, Num(1)>>, <<point2.x, Num(1)>> >>,
                           <<point1.y, point2.y>>)
         IN  [thrown |-> result.thrown, a |-> result.data[1][1], k |-> result.data[2][1]]

\* variant: the test for two points of equal y is missing
getCoefficienConstNoHorizontalTest(point1, point2) ==
    IF Eq(point1.x, point2.x) /\ Eq(point1.y, point2.y)
    THEN [thrown |-> FALSE, a |-> null, k |-> null]
    ELSE IF Eq(point1.x, point2.x)
    THEN [thrown |-> FALSE, a |-> point1.x, k |-> null]
    ELSE LET result == solveSimultaneousEquation(
                           << <<point1.x, Num(1)>>, <<point2.x, Num(1)>> >>,
                           <<point1.y, point2.y>>)
         IN  IF result.thrown
             THEN [thrown |-> TRUE, a |-> undefined, k |-> undefined]
             ELSE [thrown |-> FALSE, a |-> result.data[1][1], k |-> result.data[2][1]]

\* variant: the test for two points of equal x is missing
getCoefficienConstNoVerticalTest(point1, point2) ==
    IF Eq(point1.x, point2.x) /\ Eq(point1.y, point2.y)
    THEN [thrown |-> FALSE, a |-> null, k |-> null]
    ELSE IF Eq(point1.y, point2.y)
    THEN [thrown |-> FALSE, a |-> null, k |-> point1.y]
    ELSE LET result == solveSimultaneousEquation(
                           << <<point1.x, Num(1)>>, <<point2.x, Num(1)>> >>,
                           <<point1.y, point2.y>>)
         IN  IF result.thrown
             THEN [thrown |-> TRUE, a |-> undefined, k |-> undefined]
             ELSE [thrown |-> FALSE, a |-> result.data[1][1], k |-> result.data[2][1]]

\* variant: the two rows of the solution are read in the other order
getCoefficienConstSwapped(point1, point2) ==
    IF Eq(point1.x, point2.x) /\ Eq(point1.y, point2.y)
    THEN [thrown |-> FALSE, a |-> null, k |-> null]
    ELSE IF Eq(point1.x, point2.x)
    THEN [thrown |-> FALSE, a |-> point1.x, k |-> null]
    ELSE IF Eq(point1.y, point2.y)
    THEN [thrown |-> FALSE, a |-> null, k |-> point1.y]
    ELSE LET result == solveSimultaneousEquation(
                           << <<point1.x, Num(1)>>, <<point2.x, Num(1)>> >>,
                           <<point1.y, point2.y>>)
         IN  IF result.thrown
             THEN [thrown |-> TRUE, a |-> undefined, k |-> undefined]
             ELSE [thrown |-> FALSE, a |-> result.data[2][1], k |-> result.data[1][1]]

\* [a, k] of the line through two points: [null, null] for one point,
\* [x, null] vertical, [null, y] horizontal, [slope, intercept] otherwise.
getCoefficienConst(point1, point2) ==
    IF Eq(point1.x, point2.x) /\ Eq(point1.y, point2.y)
    THEN [thrown |-> FALSE, a |-> null, k |-> null]
    ELSE IF Eq(point1.x, point2.x)
    THEN [thrown |-> FALSE, a |-> point1.x, k |-> null]
    ELSE IF Eq(point1.y, point2.y)
    THEN [thrown |-> FALSE, a |-> null, k |-> point1.y]
    ELSE LET result == solveSimultaneousEquation(
                           << <<point1.x, Num(1)>>, <<point2.x, Num(1)>> >>,
                           <<point1.y, point2.y>>)
         IN  IF result.thrown
             THEN [thrown |-> TRUE, a |-> undefined, k |-> undefined]
             ELSE [thrown |-> FALSE, a |-> result.data[1][1], k |-> result.data[2][1]]

----------------------------------------------------------------------------
(* Segment intersection engine *)

\* variant: the boxes are compared along y only
BoxesDisjointYOnly(minxo, minyo, maxxo, maxyo, minxt, minyt, maxxt, maxyt) ==
    Lt(maxyt, minyo) \/ Lt(maxyo, minyt)

\* the bounding-box test before `continue`
BoxesDisjoint(minxo, minyo, maxxo, maxyo, minxt, minyt, maxxt, maxyt) ==
    Lt(maxxt, minxo) \/ Lt(maxxo, minxt) \/ Lt(maxyt, minyo) \/ Lt(maxyo, minyt)

\* variant: the horizontal query against a sloped candidate subtracts the
\* intercepts the other way round
CaseChainAsymmetric(ao, ko, at, kt, intersectX, intersectY) ==
    IF EqNull(at) /\ EqNull(kt) THEN
        [skip |-> TRUE, x |-> intersectX, y |-> intersectY]
    ELSE IF EqNull(ao) /\ EqNull(ko) THEN
        [skip |-> TRUE, x |-> intersectX, y |-> intersectY]
    ELSE IF EqNull(ko) /\ EqNull(kt) THEN
        [skip |-> TRUE, x |-> intersectX, y |-> intersectY]
    ELSE IF EqNull(ao) /\ EqNull(at) THEN
        [skip |-> TRUE, x |-> intersectX, y |-> intersectY]
    ELSE IF EqNull(ko) /\ EqNull(at) THEN
        [skip |-> FALSE, x |-> ao, y |-> kt]
    ELSE IF EqNull(ao) /\ EqNull(kt) THEN
        [skip |-> FALSE, x |-> at, y |-> ko]
    ELSE IF EqNull(ko) THEN
        [skip |-> FALSE, x |-> ao, y |-> Add(Mul(at, ao), kt)]
    ELSE IF EqNull(ao) THEN
        [skip |-> FALSE, x |-> Div(Sub(kt, ko), at), y |-> ko]
    ELSE IF EqNull(kt) THEN
        [skip |-> FALSE, x |-> at, y |-> Add(Mul(ao, at), ko)]
    ELSE IF EqNull(at) THEN
        [skip |-> FALSE, x |-> Div(Sub(kt, ko), ao), y |-> kt]
    ELSE
        LET result == solveSimultaneousEquation(
                          << <<Num(1), Mul(Num(-1), ao)>>,
                             <<Num(1), Mul(Num(-1), at)>> >>,
                          <<ko, kt>>)
        IN  IF result.thrown
            THEN \* catch (ex) { console.log(ex) }
                 [skip |-> FALSE, x |-> intersectX, y |-> intersectY]
            ELSE [skip |-> FALSE, x |-> result.data[2][1], y |-> result.data[1][1]]

\* The if / else-if chain over the two coefficient pairs.  intersectX and
\* intersectY are function-scoped `var`s: a branch that assigns nothing
\* leaves the values of the previous loop iteration in place.
\* skip: the branch is a `continue`.
CaseChain(ao, ko, at, kt, intersectX, intersectY) ==
    IF EqNull(at) /\ EqNull(kt) THEN
        [skip |-> TRUE, x |-> intersectX, y |-> intersectY]
    ELSE IF EqNull(ao) /\ EqNull(ko) THEN
        [skip |-> TRUE, x |-> intersectX, y |-> intersectY]
    ELSE IF EqNull(ko) /\ EqNull(kt) THEN
        [skip |-> TRUE, x |-> intersectX, y |-> intersectY]
    ELSE IF EqNull(ao) /\ EqNull(at) THEN
        [skip |-> TRUE, x |-> intersectX, y |-> intersectY]
    ELSE IF EqNull(ko) /\ EqNull(at) THEN
        [skip |-> FALSE, x |-> ao, y |-> kt]
    ELSE IF EqNull(ao) /\ EqNull(kt) THEN
        [skip |-> FALSE, x |-> at, y |-> ko]
    ELSE IF EqNull(ko) THEN
        [skip |-> FALSE, x |-> ao, y |-> Add(Mul(at, ao), kt)]
    ELSE IF EqNull(ao) THEN
        [skip |-> FALSE, x |-> Div(Sub(ko, kt), at), y |-> ko]
    ELSE IF EqNull(kt) THEN
        [skip |-> FALSE, x |-> at, y |-> Add(Mul(ao, at), ko)]
    ELSE IF EqNull(at) THEN
        [skip |-> FALSE, x |-> Div(Sub(kt, ko), ao), y |-> kt]
    ELSE
        LET result == solveSimultaneousEquation(
                          << <<Num(1), Mul(Num(-1), ao)>>,
                             <<Num(1), Mul(Num(-1), at)>> >>,
                          <<ko, kt>>)
        IN  IF result.thrown
            THEN \* catch (ex) { console.log(ex) }
                 [skip |-> FALSE, x |-> intersectX, y |-> intersectY]
            ELSE [skip |-> FALSE, x |-> result.data[2][1], y |-> result.data[1][1]]

\* variant: the point is tested against the box of the query only
AcceptQueryBoxOnly(point1, point2, intersectX, intersectY, minxo, minyo, maxxo, maxyo, minxt, minyt, maxxt, maxyt) ==
    /\ Le(minxo, intersectX)
    /\ Le(intersectX, maxxo)
    /\ Le(minyo, intersectY)
    /\ Le(intersectY, maxyo)
    /\ ~(Eq(intersectX, point1.x) /\ Eq(intersectY, point1.y))
    /\ ~(Eq(intersectX, point2.x) /\ Eq(intersectY, point2.y))

\* variant: the two tests against the endpoints of the query are missing
AcceptNoEndpointTest(point1, point2, intersectX, intersectY, minxo, minyo, maxxo, maxyo, minxt, minyt, maxxt, maxyt) ==
    /\ Le(max(minxo, minxt), intersectX)
    /\ Le(intersectX, min(maxxo, maxxt))
    /\ Le(max(minyo, minyt), intersectY)
    /\ Le(intersectY, min(maxyo, maxyt))

\* variant: the box comparisons are strict
AcceptStrict(point1, point2, intersectX, intersectY, minxo, minyo, maxxo, maxyo, minxt, minyt, maxxt, maxyt) ==
    /\ Lt(max(minxo, minxt), intersectX)
    /\ Lt(intersectX, min(maxxo, maxxt))
    /\ Lt(max(minyo, minyt), intersectY)
    /\ Lt(intersectY, min(maxyo, maxyt))
    /\ ~(Eq(intersectX, point1.x) /\ Eq(intersectY, point1.y))
    /\ ~(Eq(intersectX, point2.x) /\ Eq(intersectY, point2.y))

\* variant: only the start of the query is excluded
AcceptStartOnly(point1, point2, intersectX, intersectY, minxo, minyo, maxxo, maxyo, minxt, minyt, maxxt, maxyt) ==
    /\ Le(max(minxo, minxt), intersectX)
    /\ Le(intersectX, min(maxxo, maxxt))
    /\ Le(max(minyo, minyt), intersectY)
    /\ Le(intersectY, min(maxyo, maxyt))
    /\ ~(Eq(intersectX, point1.x) /\ Eq(intersectY, point1.y))

\* the acceptance test guarding intersects.push
Accept(point1, point2, intersectX, intersectY, minxo, minyo, maxxo, maxyo, minxt, minyt, maxxt, maxyt) ==
    /\ Le(max(minxo, minxt), intersectX)
    /\ Le(intersectX, min(maxxo, maxxt))
    /\ Le(max(minyo, minyt), intersectY)
    /\ Le(intersectY, min(maxyo, maxyt))
    /\ ~(Eq(intersectX, point1.x) /\ Eq(intersectY, point1.y))
    /\ ~(Eq(intersectX, point2.x) /\ Eq(intersectY, point2.y))

\* One pass of the for loop over finieshLines, from candidate c on.
\* Every pushed point records c, the candidate being processed, next to
\* the coordinates of its vertex.
RECURSIVE FindLoop(_, _, _, _, _, _, _, _)
FindLoop(point1, point2, finieshLines, origin, c, intersectX, intersectY, acc) ==
    IF c > Len(finieshLines) THEN [thrown |-> FALSE, intersects |-> acc]
    ELSE
    LET minxo == min(point1.x, point2.x)
        minyo == min(point1.y, point2.y)
        maxxo == max(point1.x, point2.x)
        maxyo == max(point1.y, point2.y)
        minxt == min(finieshLines[c].start.x, finieshLines[c].end.x)
        minyt == min(finieshLines[c].start.y, finieshLines[c].end.y)
        maxxt == max(finieshLines[c].start.x, finieshLines[c].end.x)
        maxyt == max(finieshLines[c].start.y, finieshLines[c].end.y)
    IN  IF BoxesDisjoint(minxo, minyo, maxxo, maxyo, minxt, minyt, maxxt, maxyt)
        THEN FindLoop(point1, point2, finieshLines, origin, c + 1,
                      intersectX, intersectY, acc)
        ELSE
        LET target == getCoefficienConst(finieshLines[c].start, finieshLines[c].end)
        IN  IF target.thrown THEN [thrown |-> TRUE, intersects |-> <<>>]
            ELSE
            LET r == CaseChain(origin.a, origin.k, target.a, target.k,
                               intersectX, intersectY)
            IN  IF r.skip
                THEN FindLoop(point1, point2, finieshLines, origin, c + 1,
                              intersectX, intersectY, acc)
                ELSE IF Accept(point1, point2, r.x, r.y,
                               minxo, minyo, maxxo, maxyo, minxt, minyt, maxxt, maxyt)
                THEN FindLoop(point1, point2, finieshLines, origin, c + 1, r.x, r.y,
                              Append(acc, [x |-> r.x, y |-> r.y, c |-> c]))
                ELSE FindLoop(point1, point2, finieshLines, origin, c + 1, r.x, r.y, acc)

findCrossPoint(point1, point2, finieshLines) ==
    LET originCoefficienConst == getCoefficienConst(point1, point2)
    IN  IF originCoefficienConst.thrown THEN [thrown |-> TRUE, intersects |-> <<>>]
        ELSE FindLoop(point1, point2, finieshLines, originCoefficienConst, 1,
                      undefined, undefined, <<>>)

----------------------------------------------------------------------------
(* findCrossPoint on its own: the inputs are drawn in FindInit *)

Coords == 0 .. MaxCoord
Points == {[x |-> Num(i), y |-> Num(j)] : i \in Coords, j \in Coords}
Lines == {[start |-> p, end |-> q] : p \in Points, q \in Points}

L(i1, j1, i2, j2) == [start |-> [x |-> Num(i1), y |-> Num(j1)],
                      end |-> [x |-> Num(i2), y |-> Num(j2)]]

\* Lines the longer candidate lists are built from: both diagonals, a
\* collinear half of one of them, a line of slope 1/2, a horizontal, a
\* vertical, a single point, and a horizontal to the right of all of them,
\* whose line meets theirs.  Lists of at most one candidate range over
\* all lines of the grid, against every query of the grid; longer lists
\* are given to the queries of the pool.
LinePool ==
    { L(0, 0, 2, 2), L(0, 2, 2, 0), L(1, 1, 2, 2), L(0, 1, 2, 2),
      L(0, 1, 2, 1), L(1, 0, 1, 2), L(1, 1, 1, 1), L(3, 1, 4, 1) }

RECURSIVE SeqsUpTo(_, _)
SeqsUpTo(S, n) ==
    IF n = 0 THEN {<<>>}
    ELSE LET shorter == SeqsUpTo(S, n - 1)
         IN  shorter \cup {Append(s, e) : s \in {t \in shorter : Len(t) = n - 1}, e \in S}

FindInputs ==
    /\ fcLines \in SeqsUpTo(Lines, 1) \cup SeqsUpTo(LinePool, MaxLines)
    /\ \E query \in (IF Len(fcLines) <= 1 THEN Lines ELSE LinePool) :
          /\ fcPoint1 = query.start
          /\ fcPoint2 = query.end
    /\ fcResult = [thrown |-> FALSE, intersects |-> <<>>]
    /\ fcState = "ready"

CallFindCrossPoint ==
    /\ fcState = "ready"
    /\ fcResult' = findCrossPoint(fcPoint1, fcPoint2, fcLines)
    /\ fcState' = "returned"
    /\ UNCHANGED <<fcPoint1, fcPoint2, fcLines>>
    /\ UNCHANGED plVars
    /\ UNCHANGED bgVars
    /\ UNCHANGED deVars
    /\ UNCHANGED incVars

----------------------------------------------------------------------------
(* Entities *)

P(i, j) == [x |-> Num(i), y |-> Num(j)]

\* The entities documents are built from.  hasVertices = FALSE is an entity
\* whose `vertices` field is missing (entity.vertices is undefined).
LineEntity(type, vertices, shape) ==
    [type |-> type, hasVertices |-> TRUE, vertices |-> vertices, shape |-> shape]

EntityPool ==
    { LineEntity("LINE", <<P(0, 0), P(2, 2)>>, FALSE),
      LineEntity("LINE", <<P(0, 2), P(2, 0)>>, FALSE),
      LineEntity("LWPOLYLINE", <<P(0, 1), P(2, 1), P(2, 2)>>, FALSE),
      [type |-> "LINE", hasVertices |-> FALSE, vertices |-> <<>>, shape |-> FALSE],
      [type |-> "3DFACE", hasVertices |-> FALSE, vertices |-> <<>>, shape |-> FALSE] }

\* A drawing with a T-junction: a diagonal, and a line that starts on the
\* middle of it.
JunctionPool ==
    { LineEntity("LINE", <<P(0, 0), P(2, 2)>>, FALSE),
      LineEntity("LINE", <<P(1, 1), P(2, 0)>>, FALSE) }

----------------------------------------------------------------------------
(* Bulge arc tessellator *)

\* Angles are exact rationals in units of Math.PI / 18 (10 degrees).  A
\* bulge b is written by its included angle: Bulge(q) is the number b with
\* 4 * Math.atan(b) = q * Math.PI / 18, of the sign of q; Bulge(Num(0)) is
\* 0.  An absent argument (undefined) is written as the falsy value 0.
Bulge(q) == [angle |-> q]

\* the number 1: 4 * Math.atan(1) is Math.PI, 18 units
One == Bulge(Num(18))

Falsy(bulge) == bulge.angle = Num(0)

\* the number -b
Negated(bulge) == Bulge(Mul(Num(-1), bulge.angle))

\* Math.ceil on a rational, Math.max on integers
Ceil(q) == -((-q[1]) \div q[2])
MathMax(a, b) == IF a >= b THEN a ELSE b

MinSegments == 6

\* THREEx.Math.polar(center, Math.abs(radius), startAngle + sweep): the
\* point of the arc at `sweep` from the start point.  The end point of the
\* arc is the one at sweep = angle.
ArcPoint(sweep) == [kind |-> "polar", sweep |-> sweep]

\* an undefined point argument, or an undefined element of a vertex list
NoVertex == [kind |-> "undefined"]

\* new THREE.Vector3(p.x, p.y, 0)
Vector3(p) == [kind |-> "point", x |-> p.x, y |-> p.y]

\* variant: the loop also runs for i = segments
BulgeGeometryInclusive(startPoint, endPoint, bulge, segments) ==
    LET b == IF Falsy(bulge) THEN One ELSE bulge
        angle == b.angle
        n == IF segments # 0 THEN segments
             ELSE MathMax(Abs(Ceil(angle)), MinSegments)
        thetaAngle == Div(angle, Num(n))
    IN  [startPoint |-> Vector3(startPoint),
         endPoint |-> IF endPoint = NoVertex THEN Vector3(P(1, 0)) ELSE Vector3(endPoint),
         bulge |-> b,
         segments |-> n,
         vertices |-> <<Vector3(startPoint)>> \o
                      [i \in 1 .. n |-> ArcPoint(Mul(thetaAngle, Num(i)))]]

\* THREEx.BulgeGeometry(startPoint, endPoint, bulge, segments): the fields
\* of the constructed object.  Center and radius fix where the arc lies;
\* the vertices are written by their sweep along it.
BulgeGeometry(startPoint, endPoint, bulge, segments) ==
    LET b == IF Falsy(bulge) THEN One ELSE bulge
        angle == b.angle
        n == IF segments # 0 THEN segments
             ELSE MathMax(Abs(Ceil(angle)), MinSegments)
        thetaAngle == Div(angle, Num(n))
    IN  [startPoint |-> Vector3(startPoint),
         endPoint |-> IF endPoint = NoVertex THEN Vector3(P(1, 0)) ELSE Vector3(endPoint),
         bulge |-> b,
         segments |-> n,
         vertices |-> <<Vector3(startPoint)>> \o
                      [i \in 1 .. n - 1 |-> ArcPoint(Mul(thetaAngle, Num(i)))]]

\* Inputs of the tessellator on its own: every angle that is a multiple of
\* 5 degrees up to MaxAngle * 10 degrees either way, 0 for a falsy bulge;
\* segment counts up to MaxSegments, 0 for none supplied.
Bulges == {Bulge(Rat(h, 2)) : h \in (-2 * MaxAngle) .. (2 * MaxAngle)}

BulgeInputs ==
    /\ bgStartPoint \in {P(0, 0), P(2, 0)}
    /\ bgEndPoint \in {P(2, 0), P(0, 2)}
    /\ bgBulge \in Bulges
    /\ bgSegments \in 0 .. MaxSegments
    /\ bgResult = <<>>
    /\ bgState = "ready"

BulgeIdle ==
    /\ bgStartPoint = P(0, 0)
    /\ bgEndPoint = P(0, 0)
    /\ bgBulge = Bulge(Num(0))
    /\ bgSegments = 0
    /\ bgResult = <<>>
    /\ bgState = "unused"

CallBulgeGeometry ==
    /\ bgState = "ready"
    /\ bgResult' = BulgeGeometry(bgStartPoint, bgEndPoint, bgBulge, bgSegments)
    /\ bgState' = "returned"
    /\ UNCHANGED <<bgStartPoint, bgEndPoint, bgBulge, bgSegments>>
    /\ UNCHANGED fcVars
    /\ UNCHANGED plVars
    /\ UNCHANGED deVars
    /\ UNCHANGED incVars

----------------------------------------------------------------------------
(* Entity geometry builder: drawLine, drawEntity *)

\* entity.vertices[i].bulge is truthy
HasBulge(vertex) == "bulge" \in DOMAIN vertex /\ ~Falsy(vertex.bulge)

\* The first loop of drawLine from vertex i on: geometry.vertices.  A
\* vertex with a bulge gives the vertices of its BulgeGeometry, drawn
\* towards the next vertex or, for the last vertex, towards
\* geometry.vertices[0]; any other vertex gives itself.
RECURSIVE BuildVertices(_, _, _)
BuildVertices(vertices, i, geometry) ==
    IF i > Len(vertices) THEN geometry
    ELSE IF HasBulge(vertices[i])
    THEN LET endPoint == IF i + 1 <= Len(vertices) THEN vertices[i + 1]
                         ELSE IF Len(geometry) > 0 THEN geometry[1]
                         ELSE NoVertex
             bulgeGeometry == BulgeGeometry(vertices[i], endPoint, vertices[i].bulge, 0)
         IN  BuildVertices(vertices, i + 1, geometry \o bulgeGeometry.vertices)
    ELSE BuildVertices(vertices, i + 1,
                       Append(geometry, [x |-> vertices[i].x, y |-> vertices[i].y]))

\* `if (entity.shape) geometry.vertices.push(geometry.vertices[0])`
Close(geometry, shape) ==
    IF shape
    THEN Append(geometry, IF Len(geometry) > 0 THEN geometry[1] ELSE NoVertex)
    ELSE geometry

\* the loop over geometry.vertices from i = 1 and the returned Line: one
\* {start, end} per pair of consecutive vertices
Segments(vertices) ==
    [thrown |-> FALSE,
     lines |-> "Line",
     lineVecs |-> [i \in 1 .. Len(vertices) - 1 |->
                      [start |-> vertices[i], end |-> vertices[i + 1]]],
     vertices |-> vertices]

\* variant: a closed entity is not closed with its first vertex
drawLineOpen(entity) ==
    IF ~entity.hasVertices
    THEN [thrown |-> TRUE, lines |-> "undefined", lineVecs |-> <<>>, vertices |-> <<>>]
    ELSE Segments(BuildVertices(entity.vertices, 1, <<>>))

\* drawLine: the built vertex list, closed with geometry.vertices[0] when
\* entity.shape is set, and one {start, end} per pair of consecutive
\* vertices.  Reading .length of a missing vertex list throws.
drawLine(entity) ==
    IF ~entity.hasVertices
    THEN [thrown |-> TRUE, lines |-> "undefined", lineVecs |-> <<>>, vertices |-> <<>>]
    ELSE Segments(Close(BuildVertices(entity.vertices, 1, <<>>), entity.shape))

\* entity types drawn by functions that return a mesh and no segments
OtherTypes == {"CIRCLE", "ARC", "TEXT", "SOLID", "POINT", "SPLINE", "MTEXT", "ELLIPSE"}

\* drawEntity: dispatch on entity.type; an unsupported type leaves mesh
\* undefined and lineVecs empty.  `vertices` is geometry.vertices of the
\* Line that drawLine returned.
\* ChildLoop is the for loop of drawBlock and of drawDimension from child i
\* on: every child is drawn and `lineVecs = result.lineVecs` is assigned
\* anew for each of them.
RECURSIVE drawEntity(_), ChildLoop(_, _, _), ChildDrawn(_, _, _)
ChildLoop(entities, i, last) ==
    IF i > Len(entities) THEN [thrown |-> FALSE, lineVecs |-> last]
    ELSE ChildDrawn(entities, i, drawEntity(entities[i]))

\* the loop body once `result = drawEntity(block.entities[i], data, font)`
\* has returned or raised
ChildDrawn(entities, i, result) ==
    IF result.thrown THEN [thrown |-> TRUE, lineVecs |-> <<>>]
    ELSE ChildLoop(entities, i + 1, result.lineVecs)

\* `return { group: group, lineVecs: lineVecs }` after the loop
GroupOf(loop) ==
    [thrown |-> loop.thrown, group |-> "Object3D", lineVecs |-> loop.lineVecs]

\* drawEntity after drawLine: mesh = result.lines, lineVecs = result.lineVecs
FromLine(result) ==
    [thrown |-> result.thrown, mesh |-> result.lines,
     lineVecs |-> result.lineVecs, vertices |-> result.vertices]

\* drawEntity after drawBlock or drawDimension: mesh = result.group,
\* lineVecs = result.lineVecs
FromGroup(result) ==
    [thrown |-> result.thrown, mesh |-> result.group,
     lineVecs |-> result.lineVecs, vertices |-> <<>>]

\* drawBlock: block = data.blocks[entity.name].  Reading .entities of a
\* missing block throws; a block without entities returns the bare group,
\* which has neither a group nor a lineVecs field.
drawBlock(entity) ==
    IF ~entity.block.defined
    THEN [thrown |-> TRUE, group |-> "undefined", lineVecs |-> <<>>]
    ELSE IF ~entity.block.hasEntities
    THEN [thrown |-> FALSE, group |-> "undefined", lineVecs |-> "undefined"]
    ELSE GroupOf(ChildLoop(entity.block.entities, 1, <<>>))

\* drawDimension: block = data.blocks[entity.block]; a missing block or a
\* block without entities gives { group: null, lineVecs: [] }.
drawDimension(entity) ==
    IF ~entity.block.defined \/ ~entity.block.hasEntities
    THEN [thrown |-> FALSE, group |-> "null", lineVecs |-> <<>>]
    ELSE GroupOf(ChildLoop(entity.block.entities, 1, <<>>))

drawEntity(entity) ==
    IF entity.type \in OtherTypes
    THEN [thrown |-> FALSE, mesh |-> "Mesh", lineVecs |-> <<>>, vertices |-> <<>>]
    ELSE IF entity.type \in {"LWPOLYLINE", "LINE", "POLYLINE"}
    THEN FromLine(drawLine(entity))
    ELSE IF entity.type = "INSERT"
    THEN FromGroup(drawBlock(entity))
    ELSE IF entity.type = "DIMENSION" /\ entity.dimensionType % 8 = 0
    THEN FromGroup(drawDimension(entity))
    ELSE [thrown |-> FALSE, mesh |-> "undefined", lineVecs |-> <<>>, vertices |-> <<>>]

----------------------------------------------------------------------------
(* drawEntity on its own: the inputs are drawn in DrawInit *)

\* vertices of a polyline: two points, each without a bulge field, with a
\* bulge of 0, of 90 degrees counter-clockwise or of 105 degrees clockwise
VertexPool ==
    {P(0, 0), P(2, 0)} \cup
    {[x |-> p.x, y |-> p.y, bulge |-> b] :
        p \in {P(0, 0), P(2, 0)}, b \in {Bulge(Num(0)), Bulge(Num(9)), Bulge(Rat(-21, 2))}}

Polylines ==
    {LineEntity("LWPOLYLINE", vertices, shape) :
        vertices \in SeqsUpTo(VertexPool, MaxVertices), shape \in BOOLEAN}

Block(entities) == [defined |-> TRUE, hasEntities |-> TRUE, entities |-> entities]

Insert(block) == [type |-> "INSERT", block |-> block]
Dimension(block, dimensionType) ==
    [type |-> "DIMENSION", block |-> block, dimensionType |-> dimensionType]

\* children of a block: two lines, a circle, and an INSERT of one line
ChildPool ==
    { LineEntity("LINE", <<P(0, 0), P(2, 2)>>, FALSE),
      LineEntity("LWPOLYLINE", <<P(0, 2), P(2, 0), P(2, 2)>>, FALSE),
      [type |-> "CIRCLE"],
      Insert(Block(<<LineEntity("LINE", <<P(0, 1), P(2, 1)>>, FALSE)>>)) }

Blocks ==
    {Block(entities) : entities \in SeqsUpTo(ChildPool, MaxChildren)} \cup
    { [defined |-> TRUE, hasEntities |-> FALSE, entities |-> <<>>],
      [defined |-> FALSE, hasEntities |-> FALSE, entities |-> <<>>] }

Composites ==
    {Insert(block) : block \in Blocks} \cup
    {Dimension(block, dimensionType) : block \in Blocks, dimensionType \in {0, 1, 8}}

DrawInputs ==
    /\ deEntity \in Polylines \cup Composites \cup EntityPool
    /\ deResult = <<>>
    /\ deState = "ready"

DrawIdle ==
    /\ deEntity = [type |-> "none"]
    /\ deResult = <<>>
    /\ deState = "unused"

CallDrawEntity ==
    /\ deState = "ready"
    /\ deResult' = drawEntity(deEntity)
    /\ deState' = "returned"
    /\ UNCHANGED deEntity
    /\ UNCHANGED fcVars
    /\ UNCHANGED plVars
    /\ UNCHANGED bgVars
    /\ UNCHANGED incVars

----------------------------------------------------------------------------
(* Work items *)

NoPromise == [settled |-> "none", index |-> 0, value |-> <<>>]

\* the executor of createObject once drawEntity has returned r or raised:
\* resolve(drawEntity(...)), or the promise is rejected
Executor(index, r) ==
    IF r.thrown
    THEN [settled |-> "rejected", index |-> index, value |-> <<>>]
    ELSE [settled |-> "fulfilled", index |-> index,
          value |-> [mesh |-> r.mesh, lineVecs |-> r.lineVecs]]

\* createObject(index, data, font): a promise whose executor runs drawEntity
\* at once; an exception in the executor rejects the promise.
createObject(index, entities) == Executor(index, drawEntity(entities[index]))

\* createIntersectPoint(start, end, finieshLines)
createIntersectPoint(index, start, end, finieshLines) ==
    LET r == findCrossPoint(start, end, finieshLines)
    IN  IF r.thrown
        THEN [settled |-> "rejected", index |-> index, value |-> <<>>]
        ELSE [settled |-> "fulfilled", index |-> index, value |-> r.intersects]

\* variant: the slice also takes the line of the item itself
sliceInclusive(lines, index) == SubSeq(lines, 1, index)

\* lines.slice(0, index) for the 0-based index of the source; here the
\* items are numbered from 1, so item i is given the i - 1 lines before it.
slice(lines, index) == SubSeq(lines, 1, index - 1)

\* The two generators.  MAX is the number of items; Call(gen, index) is
\* what calling the yielded closure of item `index` returns.
GeneratorA(entities) ==
    [phase |-> "a", MAX |-> Len(entities), entities |-> entities, lines |-> <<>>]
GeneratorB(lines) ==
    [phase |-> "b", MAX |-> Len(lines), entities |-> <<>>, lines |-> lines]

Call(gen, index) ==
    IF gen.phase = "a"
    THEN createObject(index, gen.entities)
    ELSE createIntersectPoint(index, gen.lines[index].start, gen.lines[index].end,
                              slice(gen.lines, index))

\* history entry of one call: the item, and for phase b its arguments
Called(gen, index) ==
    IF gen.phase = "a"
    THEN [phase |-> "a", index |-> index, line |-> <<>>, finieshLines |-> <<>>]
    ELSE [phase |-> "b", index |-> index, line |-> gen.lines[index],
          finieshLines |-> slice(gen.lines, index)]

----------------------------------------------------------------------------
(* Concurrent batch scheduler: asynccParallel *)

\* variant: every worker iterates the sequence with a cursor of its own
PullNextOwnCursor(sch, w, gen) ==
    LET own == Len(sch.vals[w]) + 1
    IN  IF own > gen.MAX
        THEN [sch EXCEPT !.wstate[w] = "resolved"]
        ELSE [sch EXCEPT !.cursor = own + 1,
                         !.inflight[w] = Call(gen, own),
                         !.wstate[w] = "awaiting",
                         !.executed = Append(@, Called(gen, own))]

\* variant: the worker also calls the item after the one it awaits
PullNextPrefetch(sch, w, gen) ==
    IF sch.cursor > gen.MAX
    THEN [sch EXCEPT !.wstate[w] = "resolved"]
    ELSE IF sch.cursor = gen.MAX
    THEN [sch EXCEPT !.cursor = @ + 1,
                     !.inflight[w] = Call(gen, sch.cursor),
                     !.wstate[w] = "awaiting",
                     !.executed = Append(@, Called(gen, sch.cursor))]
    ELSE [sch EXCEPT !.cursor = @ + 2,
                     !.inflight[w] = Call(gen, sch.cursor),
                     !.wstate[w] = "awaiting",
                     !.executed = Append(Append(@, Called(gen, sch.cursor)),
                                         Called(gen, sch.cursor + 1))]

\* The worker's for loop from `result = iterator.next()` on: when the
\* generator is done the worker calls resolve(vals); otherwise it calls the
\* yielded closure, which runs the item, and suspends at `await`.
PullNext(sch, w, gen) ==
    IF sch.cursor > gen.MAX
    THEN [sch EXCEPT !.wstate[w] = "resolved"]
    ELSE [sch EXCEPT !.cursor = @ + 1,
                     !.inflight[w] = Call(gen, sch.cursor),
                     !.wstate[w] = "awaiting",
                     !.executed = Append(@, Called(gen, sch.cursor))]

\* variant: the worker resolves after its first item instead of looping
ResumeWorkerOnce(sch, w, gen) ==
    IF sch.inflight[w].settled = "rejected"
    THEN [sch EXCEPT !.wstate[w] = "pending", !.inflight[w] = NoPromise]
    ELSE [sch EXCEPT
              !.vals[w] = Append(@, [index |-> sch.inflight[w].index,
                                     val |-> sch.inflight[w].value]),
              !.inflight[w] = NoPromise,
              !.completed = @ \cup {<<gen.phase, sch.inflight[w].index>>},
              !.wstate[w] = "resolved"]

\* variant: all workers push to the list of the first worker
ResumeWorkerSharedList(sch, w, gen) ==
    IF sch.inflight[w].settled = "rejected"
    THEN [sch EXCEPT !.wstate[w] = "pending", !.inflight[w] = NoPromise]
    ELSE PullNext([sch EXCEPT
                       !.vals[1] = Append(@, [index |-> sch.inflight[w].index,
                                              val |-> sch.inflight[w].value]),
                       !.inflight[w] = NoPromise,
                       !.completed = @ \cup {<<gen.phase, sch.inflight[w].index>>}],
                  w, gen)

\* variant: the value is put at the front of the worker's list
ResumeWorkerUnshift(sch, w, gen) ==
    IF sch.inflight[w].settled = "rejected"
    THEN [sch EXCEPT !.wstate[w] = "pending", !.inflight[w] = NoPromise]
    ELSE PullNext([sch EXCEPT
                       !.vals[w] = <<[index |-> sch.inflight[w].index,
                                      val |-> sch.inflight[w].value]>> \o @,
                       !.inflight[w] = NoPromise,
                       !.completed = @ \cup {<<gen.phase, sch.inflight[w].index>>}],
                  w, gen)

\* The worker continues after `await result.value()`.  A fulfilled promise:
\* vals.push(val), then the next iterator.next().  A rejected promise: the
\* await throws inside the async executor; nothing catches it and neither
\* resolve nor reject is ever called, so the worker's promise stays pending.
ResumeWorker(sch, w, gen) ==
    IF sch.inflight[w].settled = "rejected"
    THEN [sch EXCEPT !.wstate[w] = "pending", !.inflight[w] = NoPromise]
    ELSE PullNext([sch EXCEPT
                       !.vals[w] = Append(@, [index |-> sch.inflight[w].index,
                                              val |-> sch.inflight[w].value]),
                       !.inflight[w] = NoPromise,
                       !.completed = @ \cup {<<gen.phase, sch.inflight[w].index>>}],
                  w, gen)

\* Array.from({ length: concurrency }, ...): the executors of workers
\* id .. concurrency run one after the other, each up to its first await.
RECURSIVE StartWorkers(_, _, _, _)
StartWorkers(sch, id, concurrency, gen) ==
    IF id > concurrency THEN sch
    ELSE StartWorkers(PullNext(sch, id, gen), id + 1, concurrency, gen)

asynccParallel(gen, concurrency, history, finished) ==
    StartWorkers([cursor |-> 1,
                  wstate |-> [w \in 1 .. concurrency |-> "idle"],
                  inflight |-> [w \in 1 .. concurrency |-> NoPromise],
                  vals |-> [w \in 1 .. concurrency |-> <<>>],
                  executed |-> history,
                  completed |-> finished],
                 1, concurrency, gen)

\* variant: the first fulfilled worker promise settles the call
AnyFulfilled(states) == \E w \in DOMAIN states : states[w] = "resolved"

\* Promise.all(promises) is fulfilled once every worker promise is
AllFulfilled(states) == \A w \in DOMAIN states : states[w] = "resolved"

\* for (const items of results) for (const item of items): all items in
\* worker order
RECURSIVE Flatten(_, _)
Flatten(results, w) ==
    IF w > Len(results) THEN <<>> ELSE results[w] \o Flatten(results, w + 1)

----------------------------------------------------------------------------
(* The synchronous Viewer of src/dist/three-dxf.js: every segment is
   intersected against the shared list of the segments drawn so far *)

\* The for loop of createIntersectPoint(point1, point2) over the shared
\* lineVecs, from candidate c on: the loop of findCrossPoint without the
\* test that skips a candidate whose box is disjoint from the query's.
RECURSIVE SharedLoop(_, _, _, _, _, _, _, _)
SharedLoop(point1, point2, shared, origin, c, intersectX, intersectY, acc) ==
    IF c > Len(shared) THEN [thrown |-> FALSE, intersects |-> acc]
    ELSE
    LET minxo == min(point1.x, point2.x)
        minyo == min(point1.y, point2.y)
        maxxo == max(point1.x, point2.x)
        maxyo == max(point1.y, point2.y)
        minxt == min(shared[c].start.x, shared[c].end.x)
        minyt == min(shared[c].start.y, shared[c].end.y)
        maxxt == max(shared[c].start.x, shared[c].end.x)
        maxyt == max(shared[c].start.y, shared[c].end.y)
        target == getCoefficienConst(shared[c].start, shared[c].end)
    IN  IF target.thrown THEN [thrown |-> TRUE, intersects |-> <<>>]
        ELSE
        LET r == CaseChain(origin.a, origin.k, target.a, target.k,
                           intersectX, intersectY)
        IN  IF r.skip
            THEN SharedLoop(point1, point2, shared, origin, c + 1,
                            intersectX, intersectY, acc)
            ELSE IF Accept(point1, point2, r.x, r.y,
                           minxo, minyo, maxxo, maxyo, minxt, minyt, maxxt, maxyt)
            THEN SharedLoop(point1, point2, shared, origin, c + 1, r.x, r.y,
                            Append(acc, [x |-> r.x, y |-> r.y, c |-> c]))
            ELSE SharedLoop(point1, point2, shared, origin, c + 1, r.x, r.y, acc)

\* createIntersectPoint(point1, point2) of src/dist, reading the shared
\* list; the points it pushes to the shared `intersects`
createIntersectPointShared(point1, point2, shared) ==
    LET originCoefficienConst == getCoefficienConst(point1, point2)
    IN  IF originCoefficienConst.thrown THEN [thrown |-> TRUE, intersects |-> <<>>]
        ELSE SharedLoop(point1, point2, shared, originCoefficienConst, 1,
                        undefined, undefined, <<>>)

\* the loop `for (i = 1; i < geometry.vertices.length; i++)` of drawLine:
\* createIntersectPoint for the segment, then lineVecs.push of it
RECURSIVE SegmentLoop(_, _, _, _), SegmentDone(_, _, _, _, _)
SegmentLoop(segments, i, shared, points) ==
    IF i > Len(segments) THEN [thrown |-> FALSE, lineVecs |-> shared, intersects |-> points]
    ELSE SegmentDone(segments, i, shared, points,
                     createIntersectPointShared(segments[i].start, segments[i].end, shared))

\* the loop body once createIntersectPoint has returned r or raised
SegmentDone(segments, i, shared, points, r) ==
    IF r.thrown
    THEN [thrown |-> TRUE, lineVecs |-> shared, intersects |-> points]
    ELSE SegmentLoop(segments, i + 1, Append(shared, segments[i]),
                     points \o r.intersects)

\* drawLine of src/dist: the vertex list is built as in drawLine, then the
\* segments are intersected and pushed one by one
drawLineShared(drawn, shared, points) ==
    IF drawn.thrown
    THEN [thrown |-> TRUE, lineVecs |-> shared, intersects |-> points]
    ELSE SegmentLoop(drawn.lineVecs, 1, shared, points)

\* The documents of the synchronous Viewer: lines and polylines, among them
\* a line to the right of the others and a part of a diagonal.
IncPool ==
    { LineEntity("LINE", <<P(0, 0), P(2, 2)>>, FALSE),
      LineEntity("LINE", <<P(0, 2), P(2, 0)>>, FALSE),
      LineEntity("LINE", <<P(1, 1), P(2, 2)>>, FALSE),
      LineEntity("LINE", <<P(3, 1), P(4, 1)>>, FALSE),
      LineEntity("LWPOLYLINE", <<P(0, 1), P(2, 1), P(2, 2)>>, FALSE) }

IncInputs ==
    /\ incData \in SeqsUpTo(IncPool, MaxEntities)
    /\ incI = 1
    /\ incLineVecs = <<>>
    /\ incIntersects = <<>>
    /\ incState = "running"

IncIdle ==
    /\ incData = <<>>
    /\ incI = 0
    /\ incLineVecs = <<>>
    /\ incIntersects = <<>>
    /\ incState = "unused"

\* one turn of `for (i = 0; i < data.entities.length; i++)` of Viewer:
\* drawEntity of a LINE, LWPOLYLINE or POLYLINE calls drawLine
IncDrawEntity ==
    /\ incState = "running"
    /\ incI <= Len(incData)
    /\ \E r \in {drawLineShared(drawLine(incData[incI]), incLineVecs, incIntersects)} :
          IF r.thrown
          THEN /\ incState' = "thrown"
               /\ UNCHANGED <<incI, incLineVecs, incIntersects>>
          ELSE /\ incLineVecs' = r.lineVecs
               /\ incIntersects' = r.intersects
               /\ incI' = incI + 1
               /\ UNCHANGED incState
    /\ UNCHANGED incData
    /\ UNCHANGED fcVars
    /\ UNCHANGED plVars
    /\ UNCHANGED bgVars
    /\ UNCHANGED deVars

\* the for loop ends
IncLoopEnd ==
    /\ incState = "running"
    /\ incI > Len(incData)
    /\ incState' = "done"
    /\ UNCHANGED <<incData, incI, incLineVecs, incIntersects>>
    /\ UNCHANGED fcVars
    /\ UNCHANGED plVars
    /\ UNCHANGED bgVars
    /\ UNCHANGED deVars

----------------------------------------------------------------------------
(* The two phases and the Viewer *)

CONCURRENCY == 10

\* createObjects after asynccParallel: items without a mesh are dropped,
\* the others give their mesh to objs and their lineVecs to lineVecs
RECURSIVE CollectObjects(_, _, _, _)
CollectObjects(items, i, objsAcc, lineVecsAcc) ==
    IF i > Len(items) THEN [objs |-> objsAcc, lineVecs |-> lineVecsAcc]
    ELSE IF items[i].val.mesh = "undefined"
    THEN CollectObjects(items, i + 1, objsAcc, lineVecsAcc)
    ELSE CollectObjects(items, i + 1, Append(objsAcc, items[i].val.mesh),
                        lineVecsAcc \o items[i].val.lineVecs)

\* createIntersectPoints after asynccParallel: intersects.concat(item) for
\* every item; each point also records q, the item it came from
RECURSIVE CollectIntersects(_, _, _)
CollectIntersects(items, i, acc) ==
    IF i > Len(items) THEN acc
    ELSE CollectIntersects(items, i + 1,
             acc \o [n \in 1 .. Len(items[i].val) |->
                        [x |-> items[i].val[n].x, y |-> items[i].val[n].y,
                         c |-> items[i].val[n].c, q |-> items[i].index]])

Workers == 1 .. conc

Docs == SeqsUpTo(EntityPool, MaxEntities) \cup SeqsUpTo(JunctionPool, MaxEntities)

Generator == IF pc = "createObjects" THEN GeneratorA(data) ELSE GeneratorB(lineVecs)

FindIdle ==
    /\ fcPoint1 = P(0, 0)
    /\ fcPoint2 = P(0, 0)
    /\ fcLines = <<>>
    /\ fcResult = [thrown |-> FALSE, intersects |-> <<>>]
    /\ fcState = "unused"

PipelineIdle ==
    /\ data = <<>>
    /\ conc = 1
    /\ pc = "unused"
    /\ cursor = 1
    /\ wstate = [w \in 1 .. 1 |-> "idle"]
    /\ inflight = [w \in 1 .. 1 |-> NoPromise]
    /\ vals = [w \in 1 .. 1 |-> <<>>]
    /\ runState = "none"
    /\ executed = <<>>
    /\ completed = {}
    /\ objs = <<>>
    /\ lineVecs = <<>>
    /\ intersects = <<>>

Init ==
    /\ FindIdle
    /\ BulgeIdle
    /\ DrawIdle
    /\ IncIdle
    /\ data \in Docs
    /\ conc \in (1 .. MaxConc) \cup {CONCURRENCY}
    /\ pc = "Viewer"
    /\ cursor = 1
    /\ wstate = [w \in 1 .. conc |-> "idle"]
    /\ inflight = [w \in 1 .. conc |-> NoPromise]
    /\ vals = [w \in 1 .. conc |-> <<>>]
    /\ runState = "none"
    /\ executed = <<>>
    /\ completed = {}
    /\ objs = <<>>
    /\ lineVecs = <<>>
    /\ intersects = <<>>

SetScheduler(sch) ==
    /\ cursor' = sch.cursor
    /\ wstate' = sch.wstate
    /\ inflight' = sch.inflight
    /\ vals' = sch.vals
    /\ executed' = sch.executed
    /\ completed' = sch.completed

Scheduler ==
    [cursor |-> cursor, wstate |-> wstate, inflight |-> inflight,
     vals |-> vals, executed |-> executed, completed |-> completed]

\* Viewer(data, ...) up to `await createObjects(data, font)`, which runs
\* createObjects up to `await asynccParallel(generator, CONCURRENCY)`
Viewer ==
    /\ pc = "Viewer"
    /\ pc' = "createObjects"
    /\ SetScheduler(asynccParallel(GeneratorA(data), conc, executed, completed))
    /\ runState' = "pending"
    /\ UNCHANGED <<data, conc, objs, lineVecs, intersects>>
    /\ UNCHANGED fcVars
    /\ UNCHANGED bgVars
    /\ UNCHANGED deVars
    /\ UNCHANGED incVars

\* the microtask that continues worker w after its await
WorkerResume(w) ==
    /\ pc \in {"createObjects", "createIntersectPoints"}
    /\ wstate[w] = "awaiting"
    /\ SetScheduler(ResumeWorker(Scheduler, w, Generator))
    /\ UNCHANGED <<data, conc, pc, runState, objs, lineVecs, intersects>>
    /\ UNCHANGED fcVars
    /\ UNCHANGED bgVars
    /\ UNCHANGED deVars
    /\ UNCHANGED incVars

\* Promise.all settles
PromiseAll ==
    /\ runState = "pending"
    /\ AllFulfilled(wstate)
    /\ runState' = "fulfilled"
    /\ UNCHANGED <<data, conc, pc, cursor, wstate, inflight, vals, executed,
                   completed, objs, lineVecs, intersects>>
    /\ UNCHANGED fcVars
    /\ UNCHANGED bgVars
    /\ UNCHANGED deVars
    /\ UNCHANGED incVars

\* variant: only the list of the first worker is read
createObjectsReturnFirstWorker ==
    /\ pc = "createObjects"
    /\ runState = "fulfilled"
    /\ LET r == CollectObjects(vals[1], 1, <<>>, <<>>)
       IN  /\ objs' = r.objs
           /\ lineVecs' = r.lineVecs
    /\ pc' = "gotObjects"
    /\ runState' = "none"
    /\ UNCHANGED <<data, conc, cursor, wstate, inflight, vals, executed, completed,
                   intersects>>
    /\ UNCHANGED fcVars
    /\ UNCHANGED bgVars
    /\ UNCHANGED deVars
    /\ UNCHANGED incVars

\* createObjects continues after its await and returns { objs, lineVecs }
createObjectsReturn ==
    /\ pc = "createObjects"
    /\ runState = "fulfilled"
    /\ LET r == CollectObjects(Flatten([w \in 1 .. conc |-> vals[w]], 1), 1, <<>>, <<>>)
       IN  /\ objs' = r.objs
           /\ lineVecs' = r.lineVecs
    /\ pc' = "gotObjects"
    /\ runState' = "none"
    /\ UNCHANGED <<data, conc, cursor, wstate, inflight, vals, executed, completed,
                   intersects>>
    /\ UNCHANGED fcVars
    /\ UNCHANGED bgVars
    /\ UNCHANGED deVars
    /\ UNCHANGED incVars

\* Viewer continues with `await createIntersectPoints(result.lineVecs)`,
\* which runs up to `await asynccParallel(generator, CONCURRENCY)`
createIntersectPoints ==
    /\ pc = "gotObjects"
    /\ pc' = "createIntersectPoints"
    /\ SetScheduler(asynccParallel(GeneratorB(lineVecs), conc, executed, completed))
    /\ runState' = "pending"
    /\ UNCHANGED <<data, conc, objs, lineVecs, intersects>>
    /\ UNCHANGED fcVars
    /\ UNCHANGED bgVars
    /\ UNCHANGED deVars
    /\ UNCHANGED incVars

\* variant: the segment list is emptied once the points are collected
createIntersectPointsReturnClears ==
    /\ pc = "createIntersectPoints"
    /\ runState = "fulfilled"
    /\ intersects' = CollectIntersects(Flatten([w \in 1 .. conc |-> vals[w]], 1), 1, <<>>)
    /\ pc' = "done"
    /\ runState' = "none"
    /\ lineVecs' = <<>>
    /\ UNCHANGED <<data, conc, cursor, wstate, inflight, vals, executed, completed,
                   objs>>
    /\ UNCHANGED fcVars
    /\ UNCHANGED bgVars
    /\ UNCHANGED deVars
    /\ UNCHANGED incVars

\* createIntersectPoints continues after its await and returns intersects
createIntersectPointsReturn ==
    /\ pc = "createIntersectPoints"
    /\ runState = "fulfilled"
    /\ intersects' = CollectIntersects(Flatten([w \in 1 .. conc |-> vals[w]], 1), 1, <<>>)
    /\ pc' = "done"
    /\ runState' = "none"
    /\ UNCHANGED <<data, conc, cursor, wstate, inflight, vals, executed, completed,
                   objs, lineVecs>>
    /\ UNCHANGED fcVars
    /\ UNCHANGED bgVars
    /\ UNCHANGED deVars
    /\ UNCHANGED incVars

Next ==
    \/ Viewer
    \/ \E w \in Workers : WorkerResume(w)
    \/ PromiseAll
    \/ createObjectsReturn
    \/ createIntersectPoints
    \/ createIntersectPointsReturn

Spec == Init /\ [][Next]_vars

FindInit == FindInputs /\ PipelineIdle /\ BulgeIdle /\ DrawIdle /\ IncIdle

FindNext == CallFindCrossPoint

SpecFind == FindInit /\ [][FindNext]_vars

BulgeInit == BulgeInputs /\ PipelineIdle /\ FindIdle /\ DrawIdle /\ IncIdle

BulgeNext == CallBulgeGeometry

SpecBulge == BulgeInit /\ [][BulgeNext]_vars

DrawInit == DrawInputs /\ PipelineIdle /\ FindIdle /\ BulgeIdle /\ IncIdle

DrawNext == CallDrawEntity

SpecDraw == DrawInit /\ [][DrawNext]_vars

IncInit == IncInputs /\ PipelineIdle /\ FindIdle /\ BulgeIdle /\ DrawIdle

IncNext == IncDrawEntity \/ IncLoopEnd

SpecInc == IncInit /\ [][IncNext]_vars

----------------------------------------------------------------------------
(* Vocabulary of the properties *)

\* the list asynccParallel resolves to, flattened
Results == Flatten([w \in 1 .. conc |-> vals[w]], 1)

InRun == pc \in {"createObjects", "createIntersectPoints"}

CallsOf(phase, i) ==
    {n \in DOMAIN executed : executed[n].phase = phase /\ executed[n].index = i}

EntriesOf(i) == {n \in DOMAIN Results : Results[n].index = i}

\* a worker whose await threw
Raised == \E w \in Workers : wstate[w] = "pending"

\* geometry of two segments, from their endpoints alone
IsPoint(line) == line.start = line.end

Dx(line) == Sub(line.end.x, line.start.x)
Dy(line) == Sub(line.end.y, line.start.y)

Cross2(ux, uy, vx, vy) == Sub(Mul(ux, vy), Mul(uy, vx))

Det(s1, s2) == Cross2(Dx(s1), Dy(s1), Dx(s2), Dy(s2))

\* s1.start + t * (s1.end - s1.start) = s2.start + u * (s2.end - s2.start)
ParamT(s1, s2) ==
    Div(Cross2(Sub(s2.start.x, s1.start.x), Sub(s2.start.y, s1.start.y), Dx(s2), Dy(s2)),
        Det(s1, s2))
ParamU(s1, s2) ==
    Div(Cross2(Sub(s2.start.x, s1.start.x), Sub(s2.start.y, s1.start.y), Dx(s1), Dy(s1)),
        Det(s1, s2))

InUnit(t) == Le(Num(0), t) /\ Le(t, Num(1))

\* two non-parallel segments that have a point in common
Crossing(s1, s2) ==
    /\ Det(s1, s2) # Num(0)
    /\ InUnit(ParamT(s1, s2))
    /\ InUnit(ParamU(s1, s2))

CrossingPoint(s1, s2) ==
    [x |-> Add(s1.start.x, Mul(ParamT(s1, s2), Dx(s1))),
     y |-> Add(s1.start.y, Mul(ParamT(s1, s2), Dy(s1)))]

Between(a, m, b) == (Le(a, m) /\ Le(m, b)) \/ (Le(b, m) /\ Le(m, a))

OnSegment(p, line) ==
    /\ Cross2(Dx(line), Dy(line), Sub(p.x, line.start.x), Sub(p.y, line.start.y)) = Num(0)
    /\ Between(line.start.x, p.x, line.end.x)
    /\ Between(line.start.y, p.y, line.end.y)

\* the two segments have exactly one point in common
MeetInOnePoint(s1, s2) ==
    IF Det(s1, s2) # Num(0) THEN Crossing(s1, s2)
    ELSE IF IsPoint(s1) THEN OnSegment(s1.start, s2)
    ELSE IF IsPoint(s2) THEN OnSegment(s2.start, s1)
    ELSE \E e1 \in {<<s1.start, s1.end>>, <<s1.end, s1.start>>} :
         \E e2 \in {<<s2.start, s2.end>>, <<s2.end, s2.start>>} :
            /\ e1[1] = e2[1]
            /\ ~OnSegment(e1[2], s2)
            /\ ~OnSegment(e2[2], s1)

\* the points of the pipeline's output found by item j on candidate i
PointsFor(i, j) ==
    {n \in DOMAIN intersects : intersects[n].q = j /\ intersects[n].c = i}

InBox(p, line) ==
    /\ Between(line.start.x, p.x, line.end.x)
    /\ Between(line.start.y, p.y, line.end.y)

IsSloped(line) == line.start.x # line.end.x /\ line.start.y # line.end.y
Slope(line) == Div(Dy(line), Dx(line))

fcQuery == [start |-> fcPoint1, end |-> fcPoint2]

NonDegenerate(lines) == SelectSeq(lines, LAMBDA line : ~IsPoint(line))

Coordinates(points) == [n \in DOMAIN points |-> <<points[n].x, points[n].y>>]

RECURSIVE TotalSegments(_, _)
TotalSegments(entities, i) ==
    IF i > Len(entities) THEN 0
    ELSE LET r == drawEntity(entities[i])
         IN  (IF r.mesh = "undefined" THEN 0 ELSE Len(r.lineVecs))
             + TotalSegments(entities, i + 1)

----------------------------------------------------------------------------
(* Properties *)

\* C1: when asynccParallel resolves, the flattened result has exactly one
\* entry per work item and every work item was called exactly once; at no
\* time has an item been called twice.
C1_ExactlyOnce ==
    InRun =>
      /\ \A i \in 1 .. Generator.MAX : Cardinality(CallsOf(Generator.phase, i)) <= 1
      /\ runState = "fulfilled" =>
           /\ Len(Results) = Generator.MAX
           /\ \A i \in 1 .. Generator.MAX :
                /\ Cardinality(EntriesOf(i)) = 1
                /\ Cardinality(CallsOf(Generator.phase, i)) = 1

\* a resolved run of more items than workers, two workers having results
C1_Witness ==
    /\ pc = "createIntersectPoints"
    /\ runState = "fulfilled"
    /\ conc = 2
    /\ Generator.MAX >= 3
    /\ Len(vals[1]) >= 1
    /\ Len(vals[2]) >= 2

\* C2: once a work item has raised and no worker can continue, the call of
\* asynccParallel has failed: its promise is rejected.
C2_RaiseRejectsRun ==
    (InRun /\ Raised /\ \A w \in Workers : wstate[w] # "awaiting")
        => runState = "rejected"

\* C3: the pipeline never stays pending.  Every step of the pipeline is a
\* job of the JavaScript job queue, which runs every queued job, and every
\* step advances a worker or the Viewer, so a run stays pending for ever
\* exactly when it reaches a state with no step left in which it has
\* neither completed nor failed.
NoStepLeft ==
    /\ pc \notin {"Viewer", "gotObjects"}
    /\ \A w \in Workers : ~(InRun /\ wstate[w] = "awaiting")
    /\ ~(runState = "pending" /\ AllFulfilled(wstate))
    /\ runState # "fulfilled"

C3_PipelineSettles == NoStepLeft => (pc = "done" \/ runState = "rejected")

\* no step starts from a state with no step left
NoStepLeftIsFinal == [][~NoStepLeft]_vars

\* C4: when the run has resolved, the cursor is exhausted, no item is in
\* flight and the result of every called item is in a worker's list.
C4_ResolvedAfterDrain ==
    (InRun /\ runState = "fulfilled") =>
      /\ cursor > Generator.MAX
      /\ \A w \in Workers : wstate[w] = "resolved" /\ inflight[w].settled = "none"
      /\ \A n \in DOMAIN executed :
           executed[n].phase = Generator.phase =>
             /\ <<executed[n].phase, executed[n].index>> \in completed
             /\ EntriesOf(executed[n].index) # {}

\* phase (a) resolved with more entities than workers
C4_Witness ==
    /\ pc = "createObjects"
    /\ runState = "fulfilled"
    /\ Len(data) > conc
    /\ \A w \in Workers : Len(vals[w]) >= 1

\* C5: the work item of segment i calls findCrossPoint with the ends of
\* segment i and with exactly the segments before i, in list order.
C5_PrefixScan ==
    \A n \in DOMAIN executed :
      executed[n].phase = "b" =>
        LET i == executed[n].index
        IN  /\ i \in 1 .. Len(lineVecs)
            /\ executed[n].line = lineVecs[i]
            /\ Len(executed[n].finieshLines) = i - 1
            /\ \A k \in 1 .. i - 1 : executed[n].finieshLines[k] = lineVecs[k]

\* the item of a third segment has been called by a second worker
C5_Witness ==
    /\ pc = "createIntersectPoints"
    /\ conc >= 2
    /\ \E n \in DOMAIN executed :
         /\ executed[n].phase = "b"
         /\ executed[n].index >= 3
         /\ Len(executed[n].finieshLines) = 2

\* C6 as stated: every pair of segments i < j with exactly one common point
\* has exactly one point in the output.
C6_EveryPairOnce ==
    pc = "done" =>
      \A j \in 1 .. Len(lineVecs) : \A i \in 1 .. j - 1 :
        MeetInOnePoint(lineVecs[i], lineVecs[j]) => Cardinality(PointsFor(i, j)) = 1

\* C6 amended: every point of the output comes from an item j and a
\* candidate i < j; a pair i < j of non-parallel segments with a common point
\* has exactly one point in the output, the common point, unless that point
\* is an end of segment j, and then it has none.
C6_PairOnceUnlessEndpoint ==
    pc = "done" =>
      /\ \A n \in DOMAIN intersects : intersects[n].c < intersects[n].q
      /\ \A j \in 1 .. Len(lineVecs) : \A i \in 1 .. j - 1 :
           Crossing(lineVecs[i], lineVecs[j]) =>
             LET X == CrossingPoint(lineVecs[i], lineVecs[j])
             IN  IF X = lineVecs[j].start \/ X = lineVecs[j].end
                 THEN PointsFor(i, j) = {}
                 ELSE /\ Cardinality(PointsFor(i, j)) = 1
                      /\ \A n \in PointsFor(i, j) :
                           intersects[n].x = X.x /\ intersects[n].y = X.y

\* the output has the point of one pair and none for a pair that meets at
\* an end of its later segment
C6_Witness ==
    /\ pc = "done"
    /\ \E j \in 1 .. Len(lineVecs) : \E i \in 1 .. j - 1 :
         /\ Crossing(lineVecs[i], lineVecs[j])
         /\ Cardinality(PointsFor(i, j)) = 1
    /\ \E j \in 1 .. Len(lineVecs) : \E i \in 1 .. j - 1 :
         /\ Crossing(lineVecs[i], lineVecs[j])
         /\ CrossingPoint(lineVecs[i], lineVecs[j]) = lineVecs[j].start
         /\ PointsFor(i, j) = {}

\* C7: every returned point lies in the box of the query and in the box of
\* the candidate processed when it was pushed, and is no end of the query.
C7_AcceptedInBothBoxes ==
    fcState = "returned" =>
      \A n \in DOMAIN fcResult.intersects :
        LET p == fcResult.intersects[n]
        IN  /\ p.c \in DOMAIN fcLines
            /\ IsNum(p.x) /\ IsNum(p.y)
            /\ InBox(p, fcQuery)
            /\ InBox(p, fcLines[p.c])
            /\ ~(p.x = fcPoint1.x /\ p.y = fcPoint1.y)
            /\ ~(p.x = fcPoint2.x /\ p.y = fcPoint2.y)

\* two candidates gave two different points
C7_Witness ==
    /\ fcState = "returned"
    /\ Len(fcResult.intersects) = 2
    /\ Coordinates(fcResult.intersects)[1] # Coordinates(fcResult.intersects)[2]
    /\ fcResult.intersects[2].c = 2

C9_DegenerateSkipped ==
    fcState = "returned" =>
      /\ ~fcResult.thrown
      /\ fcPoint1 = fcPoint2 => fcResult.intersects = <<>>
      /\ \A n \in DOMAIN fcResult.intersects : ~IsPoint(fcLines[fcResult.intersects[n].c])
      /\ Coordinates(fcResult.intersects)
           = Coordinates(findCrossPoint(fcPoint1, fcPoint2, NonDegenerate(fcLines)).intersects)

\* a candidate that is one point inside the box of the query, followed by a
\* candidate that gives a point
C9_Witness ==
    /\ fcState = "returned"
    /\ Len(fcLines) = 2
    /\ IsPoint(fcLines[1])
    /\ InBox(fcLines[1].start, fcQuery)
    /\ Len(fcResult.intersects) = 1
    /\ fcResult.intersects[1].c = 2

\* C10: a step that calls an item of phase (b) starts from a state in which
\* every item of phase (a) was called and has completed, and the segment
\* list holds the segments of all entities.
BCalls == {n \in DOMAIN executed : executed[n].phase = "b"}

PhaseADone ==
    /\ pc \in {"gotObjects", "createIntersectPoints"}
    /\ \A i \in 1 .. Len(data) : CallsOf("a", i) # {} /\ <<"a", i>> \in completed
    /\ Len(lineVecs) = TotalSegments(data, 1)

C10_PhaseOrder == [][(BCalls' # BCalls) => (PhaseADone /\ lineVecs' = lineVecs)]_vars

\* phase (b) is running on the segments of several entities
C10_Witness ==
    /\ pc = "createIntersectPoints"
    /\ BCalls # {}
    /\ Len(data) >= 2
    /\ conc >= 2
    /\ \E w \in Workers : wstate[w] = "awaiting"

\* a parameter strictly inside the segment
Interior(t) == Lt(Num(0), t) /\ Lt(t, Num(1))

\* the two segments cross at a point interior to both
ProperCrossing(s1, s2) ==
    /\ Det(s1, s2) # Num(0)
    /\ Interior(ParamT(s1, s2))
    /\ Interior(ParamU(s1, s2))

\* C11: when the query and the single candidate of the list cross at one
\* point interior to both, findCrossPoint returns a list of exactly one
\* point, the crossing point; (0,0)-(2,2) against (0,2)-(2,0) gives (1,1).
C11_Example ==
    Coordinates(findCrossPoint(P(0, 0), P(2, 2), <<L(0, 2, 2, 0)>>).intersects)
      = << <<Num(1), Num(1)>> >>

C11_ProperCrossingFound ==
    /\ C11_Example
    /\ (fcState = "returned" /\ Len(fcLines) = 1 /\ ProperCrossing(fcQuery, fcLines[1]))
         => /\ ~fcResult.thrown
            /\ Coordinates(fcResult.intersects)
                 = << <<CrossingPoint(fcQuery, fcLines[1]).x,
                        CrossingPoint(fcQuery, fcLines[1]).y>> >>

\* a horizontal query crossed by a sloped candidate off the grid points
C11_Witness ==
    /\ fcState = "returned"
    /\ Len(fcLines) = 1
    /\ ProperCrossing(fcQuery, fcLines[1])
    /\ fcPoint1.y = fcPoint2.y
    /\ IsSloped(fcLines[1])
    /\ Len(fcResult.intersects) = 1
    /\ fcResult.intersects[1].x[2] # 1

\* the crossing point of candidate c is an end of the query
MeetsAtQueryEnd(c) ==
    /\ Crossing(fcQuery, fcLines[c])
    /\ CrossingPoint(fcQuery, fcLines[c]) \in {fcPoint1, fcPoint2}

\* C12: a candidate that is not parallel to the query and meets it at the
\* start or at the end of the query adds no point; with that candidate
\* alone the result is the empty list.  (0,0)-(1,1) and (1,1)-(2,0) give
\* nothing in either role.
C12_Example ==
    /\ findCrossPoint(P(0, 0), P(1, 1), <<L(1, 1, 2, 0)>>).intersects = <<>>
    /\ findCrossPoint(P(1, 1), P(2, 0), <<L(0, 0, 1, 1)>>).intersects = <<>>

C12_SharedEndpointSuppressed ==
    /\ C12_Example
    /\ fcState = "returned" =>
         /\ \A c \in DOMAIN fcLines :
              MeetsAtQueryEnd(c) =>
                \A n \in DOMAIN fcResult.intersects : fcResult.intersects[n].c # c
         /\ (Len(fcLines) = 1 /\ MeetsAtQueryEnd(1)) => fcResult.intersects = <<>>

\* the candidate passes through the end of the query, away from its own ends
C12_Witness ==
    /\ fcState = "returned"
    /\ Len(fcLines) = 1
    /\ MeetsAtQueryEnd(1)
    /\ CrossingPoint(fcQuery, fcLines[1]) = fcPoint2
    /\ fcPoint2 \notin {fcLines[1].start, fcLines[1].end}
    /\ fcResult.intersects = <<>>

IsVertical(line) == ~IsPoint(line) /\ line.start.x = line.end.x
IsHorizontal(line) == ~IsPoint(line) /\ line.start.y = line.end.y

\* both vertical or both horizontal
AxisParallel(s1, s2) ==
    \/ IsVertical(s1) /\ IsVertical(s2)
    \/ IsHorizontal(s1) /\ IsHorizontal(s2)

\* two sloped segments of the same slope
SlopedParallel(s1, s2) ==
    IsSloped(s1) /\ IsSloped(s2) /\ Det(s1, s2) = Num(0)

\* C13: findCrossPoint returns normally for every query and every list of
\* candidates, with axis-parallel pairs, parallel sloped pairs and
\* single-point segments among them; a candidate that is vertical like
\* the query, or horizontal like the query, adds no point.
C13_Total ==
    fcState = "returned" =>
      /\ ~fcResult.thrown
      /\ \A c \in DOMAIN fcLines :
           AxisParallel(fcQuery, fcLines[c]) =>
             \A n \in DOMAIN fcResult.intersects : fcResult.intersects[n].c # c

\* an overlapping vertical candidate behind one that gave a point
C13_Witness ==
    /\ fcState = "returned"
    /\ Len(fcLines) = 2
    /\ IsVertical(fcQuery)
    /\ IsVertical(fcLines[2])
    /\ fcLines[2].start.x = fcPoint1.x
    /\ ~fcResult.thrown
    /\ Len(fcResult.intersects) = 1
    /\ fcResult.intersects[1].c = 1

\* a parallel sloped candidate and a single-point candidate in one list
C13_WitnessSingular ==
    /\ fcState = "returned"
    /\ Len(fcLines) = 2
    /\ SlopedParallel(fcQuery, fcLines[1])
    /\ IsPoint(fcLines[2])
    /\ ~fcResult.thrown

\* the coefficient pair the claim gives for the line through p1 and p2
Classified(p1, p2, m) ==
    /\ ~m.thrown
    /\ IF p1 = p2 THEN m.a = null /\ m.k = null
       ELSE IF p1.x = p2.x THEN m.a = p1.x /\ m.k = null
       ELSE IF p1.y = p2.y THEN m.a = null /\ m.k = p1.y
       ELSE /\ m.a = Div(Sub(p2.y, p1.y), Sub(p2.x, p1.x))
            /\ m.k = Sub(p1.y, Mul(m.a, p1.x))
            /\ p1.y = Add(Mul(m.a, p1.x), m.k)
            /\ p2.y = Add(Mul(m.a, p2.x), m.k)

C14_Example ==
    /\ getCoefficienConst(P(0, 0), P(0, 5)) = [thrown |-> FALSE, a |-> Num(0), k |-> null]
    /\ getCoefficienConst(P(0, 3), P(5, 3)) = [thrown |-> FALSE, a |-> null, k |-> Num(3)]
    /\ getCoefficienConst(P(0, 0), P(2, 2)) = [thrown |-> FALSE, a |-> Num(1), k |-> Num(0)]

\* C14: getCoefficienConst gives a pair for every two points: [null, null]
\* for identical points, else [x, null] for equal x, else [null, y] for
\* equal y, else [a, k] with a = (y2 - y1) / (x2 - x1) and k = y1 - a * x1,
\* and both points satisfy y = a * x + k.
C14_Classify ==
    /\ C14_Example
    /\ fcState = "returned" =>
         /\ Classified(fcPoint1, fcPoint2, getCoefficienConst(fcPoint1, fcPoint2))
         /\ \A c \in DOMAIN fcLines :
              Classified(fcLines[c].start, fcLines[c].end,
                         getCoefficienConst(fcLines[c].start, fcLines[c].end))

\* a sloped query of fractional slope and non-zero intercept
C14_Witness ==
    /\ fcState = "returned"
    /\ IsSloped(fcQuery)
    /\ getCoefficienConst(fcPoint1, fcPoint2).a[2] = 2
    /\ getCoefficienConst(fcPoint1, fcPoint2).k # Num(0)
    /\ Len(fcLines) = 1
    /\ IsVertical(fcLines[1])
    /\ Len(fcResult.intersects) = 1

\* p lies on the line through the two ends of the segment
OnLine(p, line) ==
    Cross2(Dx(line), Dy(line), Sub(p.x, line.start.x), Sub(p.y, line.start.y)) = Num(0)

\* the case chain on the coefficient pairs of two segments, nothing left
\* over from an earlier candidate
Intersect(s1, s2) ==
    LET origin == getCoefficienConst(s1.start, s1.end)
        target == getCoefficienConst(s2.start, s2.end)
    IN  CaseChain(origin.a, origin.k, target.a, target.k, undefined, undefined)

HasPoint(r) == ~r.skip /\ IsNum(r.x) /\ IsNum(r.y)

\* C15: the case chain gives, for every pair of coefficient pairs, either
\* no point (a single-point segment, or two parallel segments) or one
\* point; for two segments that are not parallel the point lies on both
\* lines, and it is the same point when query and candidate change roles.
C15_CaseTable ==
    fcState = "returned" =>
      \A c \in DOMAIN fcLines :
        LET r == Intersect(fcQuery, fcLines[c])
            swapped == Intersect(fcLines[c], fcQuery)
        IN  IF Det(fcQuery, fcLines[c]) = Num(0)
            THEN ~HasPoint(r) /\ ~HasPoint(swapped)
            ELSE /\ HasPoint(r)
                 /\ OnLine(r, fcQuery)
                 /\ OnLine(r, fcLines[c])
                 /\ HasPoint(swapped)
                 /\ swapped.x = r.x
                 /\ swapped.y = r.y

\* a horizontal query and a sloped candidate whose lines meet off the grid
C15_Witness ==
    /\ fcState = "returned"
    /\ Len(fcLines) = 1
    /\ IsHorizontal(fcQuery)
    /\ IsSloped(fcLines[1])
    /\ HasPoint(Intersect(fcQuery, fcLines[1]))
    /\ Intersect(fcQuery, fcLines[1]).x[2] # 1
    /\ Intersect(fcLines[1], fcQuery) = Intersect(fcQuery, fcLines[1])

\* the point computed for candidate c on its own passes the tests of
\* acceptance: it is in both boxes and is no end of the query
AcceptedFor(c) ==
    LET r == Intersect(fcQuery, fcLines[c])
    IN  /\ HasPoint(r)
        /\ InBox(r, fcQuery)
        /\ InBox(r, fcLines[c])
        /\ ~(r.x = fcPoint1.x /\ r.y = fcPoint1.y)
        /\ ~(r.x = fcPoint2.x /\ r.y = fcPoint2.y)

PointsOfCandidate(c) ==
    {n \in DOMAIN fcResult.intersects : fcResult.intersects[n].c = c}

PlacesOf(i) ==
    {<<w, n>> \in Workers \X (1 .. Generator.MAX) :
        n <= Len(vals[w]) /\ vals[w][n].index = i}

NonEmptyLists == {w \in Workers : vals[w] # <<>>}

Least(a, b) == IF a <= b THEN a ELSE b

\* what asynccParallel has resolved to
C17_Resolved ==
    (InRun /\ runState = "fulfilled") =>
      /\ DOMAIN vals = 1 .. conc
      /\ \A i \in 1 .. Generator.MAX : Cardinality(PlacesOf(i)) = 1
      /\ Cardinality(NonEmptyLists) <= Least(conc, Generator.MAX)

\* a result is put at the end of the list of the worker that pulled it
C17_Pushed ==
    \A w \in Workers :
      (pc' = pc /\ vals'[w] # vals[w]) =>
        /\ wstate[w] = "awaiting"
        /\ vals'[w] = Append(vals[w], [index |-> inflight[w].index,
                                       val |-> inflight[w].value])

\* C17: asynccParallel resolves to exactly `concurrency` worker-local lists,
\* empty for the workers that pulled nothing; the result of every item is
\* in exactly one of them, at the end of the list of the worker that
\* pulled it when it was pushed, whatever the index of the item.
C17_ResultShape == []C17_Resolved /\ [][C17_Pushed]_vars

\* two workers, three items: the first worker's list holds items 1 and 3,
\* so the flattened result is not in input order
C17_Witness ==
    /\ InRun
    /\ runState = "fulfilled"
    /\ conc = 2
    /\ Len(vals[1]) = 2
    /\ vals[1][1].index = 1
    /\ vals[1][2].index = 3
    /\ Len(vals[2]) = 1

\* more workers than items: the last workers resolve to empty lists
C17_WitnessEmpty ==
    /\ InRun
    /\ runState = "fulfilled"
    /\ conc > Generator.MAX
    /\ Generator.MAX >= 1
    /\ vals[conc] = <<>>

\* the items of the running phase that were pulled and have not completed
InFlight ==
    {i \in 1 .. Generator.MAX :
        CallsOf(Generator.phase, i) # {} /\ <<Generator.phase, i>> \notin completed}

\* C18: while asynccParallel runs with bound `concurrency` over MAX items,
\* the items pulled from the generator and not yet completed are at most
\* min(concurrency, MAX).
C18_BoundedConcurrency ==
    InRun => Cardinality(InFlight) <= Least(conc, Generator.MAX)

\* more items than workers: every worker holds one item and the generator
\* has been advanced past the first items
C18_Witness ==
    /\ InRun
    /\ conc = 2
    /\ Generator.MAX = 3
    /\ Cardinality(InFlight) = 2
    /\ cursor = 4
    /\ \A w \in Workers : wstate[w] = "awaiting"

\* C19: for a non-zero bulge and a segment count s >= 1 (supplied, or the
\* default when none is) BulgeGeometry gives exactly s vertices: the start
\* point, then the arc points of i = 1 .. s - 1 at i / s of the included
\* angle; the arc point of i = s, the end of the arc, is not emitted.
C19_TessellatorShape ==
    (bgState = "returned" /\ ~Falsy(bgBulge)) =>
      LET s == bgResult.segments
          angle == bgBulge.angle
      IN  /\ bgSegments >= 1 => s = bgSegments
          /\ s >= 1
          /\ Len(bgResult.vertices) = s
          /\ bgResult.vertices[1]
               = [kind |-> "point", x |-> bgStartPoint.x, y |-> bgStartPoint.y]
          /\ \A i \in 1 .. s - 1 :
               bgResult.vertices[i + 1]
                 = [kind |-> "polar", sweep |-> Div(Mul(angle, Num(i)), Num(s))]
          /\ \A n \in DOMAIN bgResult.vertices :
               bgResult.vertices[n] # [kind |-> "polar", sweep |-> angle]

\* three segments over a clockwise arc of 105 degrees
C19_Witness ==
    /\ bgState = "returned"
    /\ bgSegments = 3
    /\ bgBulge.angle = Rat(-21, 2)
    /\ Len(bgResult.vertices) = 3
    /\ bgResult.vertices[3] = [kind |-> "polar", sweep |-> Num(-7)]

\* the absolute value of a rational
AbsRat(q) == <<Abs(q[1]), q[2]>>

\* C20: with no segment count supplied the object has
\* max(ceil(|angle| / 10 degrees), 6) segments, for a bulge of either
\* sign; a bulge and its negation give the same number of segments.
C20_DefaultDensity ==
    (bgState = "returned" /\ bgSegments = 0) =>
      /\ bgResult.segments = MathMax(Ceil(AbsRat(bgResult.bulge.angle)), 6)
      /\ BulgeGeometry(bgStartPoint, bgEndPoint, Negated(bgBulge), 0).segments
           = bgResult.segments

InPhaseB == pc \in {"gotObjects", "createIntersectPoints"}

\* every item of phase (b) was given the segment the list holds at its index
C21_ItemsReadTheList ==
    (pc \in {"createIntersectPoints", "done"}) =>
      \A n \in BCalls :
        /\ executed[n].index \in DOMAIN lineVecs
        /\ executed[n].line = lineVecs[executed[n].index]

\* C21: from the moment createObjects has returned the segment list, no
\* step of phase (b), whether a scheduler step or an intersection work item,
\* changes the list or a coordinate of one of its segments: the list at the
\* end of phase (b) is the list at its start.
C21_SegmentsReadOnly ==
    []C21_ItemsReadTheList /\ [][InPhaseB => lineVecs' = lineVecs]_vars

\* phase (b) has ended with points found on a list of several segments
C21_Witness ==
    /\ pc = "done"
    /\ Len(lineVecs) >= 3
    /\ Len(intersects) >= 2
    /\ Cardinality(BCalls) = Len(lineVecs)

\* an item of the running phase has raised: its promise is rejected, or the
\* worker that awaited it has already been thrown out of its loop
HasRaised ==
    InRun /\ \E w \in Workers : inflight[w].settled = "rejected" \/ wstate[w] = "pending"

\* C22: once a work item has raised during a run of asynccParallel, no
\* worker pulls another item and no further work item is started.
C22_AbortOnFailure == [][(HasRaised /\ pc' = pc) => executed' = executed]_vars

\* the intervals between a1, a2 and between b1, b2 have a number in common
IntervalsMeet(a1, a2, b1, b2) ==
    Between(a1, b1, a2) \/ Between(a1, b2, a2) \/ Between(b1, a1, b2) \/ Between(b1, a2, b2)

\* the boxes of the two segments have no point in common
DisjointBoxes(s1, s2) ==
    ~(/\ IntervalsMeet(s1.start.x, s1.end.x, s2.start.x, s2.end.x)
      /\ IntervalsMeet(s1.start.y, s1.end.y, s2.start.y, s2.end.y))

\* the list without its c-th line
Without(lines, c) == SubSeq(lines, 1, c - 1) \o SubSeq(lines, c + 1, Len(lines))

\* C23: a candidate whose box is disjoint from the box of the query adds no
\* point, and the result is the same list of points when that candidate is
\* taken out of the list.
C23_PruningSound ==
    fcState = "returned" =>
      \A c \in DOMAIN fcLines :
        DisjointBoxes(fcQuery, fcLines[c]) =>
          /\ PointsOfCandidate(c) = {}
          /\ Coordinates(findCrossPoint(fcPoint1, fcPoint2, Without(fcLines, c)).intersects)
               = Coordinates(fcResult.intersects)

\* a candidate away from the query whose line passes through the point
\* found by the candidate before it, followed by a candidate parallel to
\* the query; the query and the first candidate cross
C23_Witness ==
    /\ fcState = "returned"
    /\ Len(fcLines) = 2
    /\ DisjointBoxes(fcQuery, fcLines[1])
    /\ OnLine(CrossingPoint(fcQuery, fcLines[2]), fcLines[1])
    /\ ~IsPoint(fcLines[1])
    /\ Crossing(fcQuery, fcLines[2])
    /\ Len(fcResult.intersects) = 1
    /\ fcResult.intersects[1].c = 2

IsLineType(entity) == entity.type \in {"LWPOLYLINE", "LINE", "POLYLINE"}

\* C24: for a line or polyline whose built vertex list has m vertices,
\* drawLine emits exactly max(m - 1, 0) segments; segment k runs from
\* vertex k to vertex k + 1, so the segments are chained; and a closed
\* entity has its first vertex appended, so that its last segment ends
\* where its first segment starts.
C24_SegmentExtraction ==
    (deState = "returned" /\ IsLineType(deEntity) /\ ~deResult.thrown) =>
      LET m == Len(deResult.vertices)
          segments == deResult.lineVecs
      IN  /\ Len(segments) = (IF m >= 1 THEN m - 1 ELSE 0)
          /\ \A k \in 1 .. Len(segments) :
               /\ segments[k].start = deResult.vertices[k]
               /\ segments[k].end = deResult.vertices[k + 1]
          /\ \A k \in 1 .. Len(segments) - 1 : segments[k].end = segments[k + 1].start
          /\ (deEntity.shape /\ deEntity.vertices # <<>>) =>
               /\ m >= 2
               /\ deResult.vertices[m] = deResult.vertices[1]
               /\ segments[Len(segments)].end = segments[1].start

\* a closed polyline of three vertices, the last one with a bulge: the arc
\* is drawn back to the first vertex and the list is closed with it
C24_Witness ==
    /\ deState = "returned"
    /\ IsLineType(deEntity)
    /\ deEntity.shape
    /\ Len(deEntity.vertices) = 3
    /\ HasBulge(deEntity.vertices[3])
    /\ ~HasBulge(deEntity.vertices[1])
    /\ Len(deResult.lineVecs) > 3
    /\ deResult.lineVecs[Len(deResult.lineVecs)].end = deResult.lineVecs[1].start

\* the calls of the running phase, in the order they were made
PhaseCalls == SelectSeq(executed, LAMBDA call : call.phase = Generator.phase)

\* the items are pulled in input order, every worker awaits at most one
\* item, and every worker-local list is in increasing order of index
C25_InOrder ==
    InRun =>
      /\ Len(PhaseCalls) = cursor - 1
      /\ \A n \in DOMAIN PhaseCalls : PhaseCalls[n].index = n
      /\ \A w \in Workers :
           /\ (wstate[w] = "awaiting") = (inflight[w].settled # "none")
           /\ \A n \in 1 .. Len(vals[w]) - 1 : vals[w][n].index < vals[w][n + 1].index
           /\ \A v \in Workers :
                (v # w /\ wstate[v] = "awaiting" /\ wstate[w] = "awaiting")
                  => inflight[v].index # inflight[w].index

\* a step of the run that pulls an item pulls one, the item at the cursor,
\* and the worker that pulls it has just completed the item it awaited
C25_PullAfterCompletion ==
    (InRun /\ pc' = pc /\ executed' # executed) =>
      /\ executed' = Append(executed, executed'[Len(executed')])
      /\ executed'[Len(executed')].index = cursor
      /\ cursor' = cursor + 1
      /\ \E w \in Workers :
           /\ wstate[w] = "awaiting"
           /\ <<Generator.phase, inflight[w].index>> \in completed'
           /\ inflight'[w].index = cursor
           /\ \A v \in Workers \ {w} : inflight'[v] = inflight[v]

\* C25: the items are pulled from the one generator in input order, item k
\* before item k + 1 and none twice; a worker has at most one item in
\* flight and pulls its next item only when the item it awaited has
\* completed; every worker-local list is in increasing order of index.
C25_CursorDiscipline == []C25_InOrder /\ [][C25_PullAfterCompletion]_vars

\* two workers over three items: the first worker has completed item 1 and
\* awaits item 3 while the second still awaits item 2
C25_Witness ==
    /\ InRun
    /\ conc = 2
    /\ Generator.MAX = 3
    /\ cursor = 4
    /\ wstate[1] = "awaiting" /\ inflight[1].index = 3
    /\ wstate[2] = "awaiting" /\ inflight[2].index = 2
    /\ Len(vals[1]) = 1

\* the segment lists yielded by the items of phase (a), in document order
RECURSIVE YieldedSegments(_, _)
YieldedSegments(entities, i) ==
    IF i > Len(entities) THEN <<>>
    ELSE drawEntity(entities[i]).lineVecs \o YieldedSegments(entities, i + 1)

Count(seq, x) == Cardinality({n \in DOMAIN seq : seq[n] = x})
Range(seq) == {seq[n] : n \in DOMAIN seq}

\* the two lists hold the same elements the same number of times
Permutation(s, t) ==
    /\ Len(s) = Len(t)
    /\ \A x \in Range(s) \cup Range(t) : Count(s, x) = Count(t, x)

\* C26: when createObjects has returned, for every concurrency and every
\* order of the worker steps, the segment list is a permutation of the
\* concatenation of the segment lists yielded by the entity work items.
C26_MaterializationLossless ==
    (pc \in {"gotObjects", "createIntersectPoints", "done"}) =>
      Permutation(lineVecs, YieldedSegments(data, 1))

\* a list that is not in document order: the first worker drew entities 1
\* and 3, the second entity 2
C26_Witness ==
    /\ pc = "gotObjects"
    /\ conc = 2
    /\ Len(data) = 3
    /\ Len(lineVecs) >= 3
    /\ lineVecs # YieldedSegments(data, 1)
    /\ \E n \in DOMAIN data : drawEntity(data[n]).mesh = "undefined"



\* what the pipeline returns for the segments taken in document order: the
\* points of segment i against the i - 1 segments before it, for every i
RECURSIVE SequentialPoints(_, _)
SequentialPoints(lines, i) ==
    IF i > Len(lines) THEN <<>>
    ELSE Coordinates(findCrossPoint(lines[i].start, lines[i].end,
                                    slice(lines, i)).intersects)
           \o SequentialPoints(lines, i + 1)

\* C27: for a fixed document the multiset of intersection points the
\* pipeline returns is the same for every concurrency and every order of
\* the worker steps: it is the multiset of the document-order run.
C27_IndependentOfConcurrency ==
    (pc = "done") =>
      Permutation(Coordinates(intersects),
                  SequentialPoints(YieldedSegments(data, 1), 1))

BatchSequential ==
    (pc = "done" /\ conc = 1) =>
      Coordinates(intersects) = SequentialPoints(YieldedSegments(data, 1), 1)

\* an INSERT, or a DIMENSION of type 0, whose block holds several children
DrawnComposite(entity) ==
    /\ \/ entity.type = "INSERT"
       \/ entity.type = "DIMENSION" /\ entity.dimensionType % 8 = 0
    /\ entity.block.defined
    /\ entity.block.hasEntities
    /\ Len(entity.block.entities) >= 2

\* C29: the segment list drawEntity returns for an INSERT or DIMENSION
\* whose block holds several children is the concatenation of the segment
\* lists of all the children.
C29_CompositeYieldsAll ==
    (deState = "returned" /\ DrawnComposite(deEntity) /\ ~deResult.thrown) =>
      deResult.lineVecs = YieldedSegments(deEntity.block.entities, 1)

\* [a, k] holds a slope and an intercept
SlopedModel(m) == IsNum(m.a) /\ IsNum(m.k)
\* [a, k] is [null, y]
HorizontalModel(m) == EqNull(m.a) /\ IsNum(m.k)

\* the Sloped model of a line: its points differ in x and in y, the solve
\* did not raise, and the slope is not 0
SlopeDefined(line) ==
    LET m == getCoefficienConst(line.start, line.end)
    IN  /\ ~m.thrown
        /\ SlopedModel(m) =>
             /\ line.start.x # line.end.x
             /\ line.start.y # line.end.y
             /\ m.a # Num(0)

\* a horizontal and a sloped line: the x computed by the case chain,
\* (y - k) / a, is a number
DivisionDefined(s1, s2) ==
    LET origin == getCoefficienConst(s1.start, s1.end)
        target == getCoefficienConst(s2.start, s2.end)
    IN  (\/ HorizontalModel(origin) /\ SlopedModel(target)
         \/ SlopedModel(origin) /\ HorizontalModel(target)) =>
          LET r == CaseChain(origin.a, origin.k, target.a, target.k, undefined, undefined)
          IN  ~r.skip /\ IsNum(r.x) /\ IsNum(r.y)

\* C30: for the query and every candidate given to findCrossPoint the
\* Sloped model is returned only for points that differ in x and in y, its
\* solve never raises and its slope is never 0; for a horizontal and a
\* sloped line of a call the quotient (y - k) / a is a number.
C30_NoDivisionByZero ==
    fcState = "returned" =>
      LET query == [start |-> fcPoint1, end |-> fcPoint2]
      IN  /\ SlopeDefined(query)
          /\ \A c \in DOMAIN fcLines :
                SlopeDefined(fcLines[c]) /\ DivisionDefined(query, fcLines[c])

\* both Horizontal-Sloped branches were taken in one call and gave a point
C30_Witness ==
    /\ fcState = "returned"
    /\ Len(fcLines) = 2
    /\ IsHorizontal([start |-> fcPoint1, end |-> fcPoint2])
    /\ IsSloped(fcLines[1])
    /\ IsSloped(fcLines[2])
    /\ Len(fcResult.intersects) = 2
    /\ fcResult.intersects[1].c = 1
    /\ fcResult.intersects[2].c = 2
====
